---- MODULE Spec2Model ----
(***************************************************************************)
(* Model of the cloud storage provider of rocksdb-cloud:                   *)
(*   cloud/cloud_storage_provider.cc  (reader, writer, GetObject/PutObject)*)
(*   cloud/aws/aws_s3.cc              (S3 provider: ListObjects, ...)      *)
(*                                                                         *)
(* The local file system is a function from path to content, the remote    *)
(* store a function from object key to content.  A content is a sequence   *)
(* of bytes; the absent file / object is the sentinel NoFile.              *)
(***************************************************************************)
EXTENDS Integers, Sequences, FiniteSets, TLC

(* ------------------------------ bounds --------------------------------- *)
\* number of Append calls made through one writer
MaxAppends == 2
\* number of Sync calls made on one writer
MaxSyncs == 2
\* number of Close calls made on one writer
MaxCloses == 2
\* length of a remote object that GetObject downloads
MaxObjLen == 2
\* number of keys the store holds under the listed prefix
MaxStoreKeys == 3
\* number of entries the caller's result vector holds before ListObjects
MaxPre == 1
\* width in bits of the unsigned integers of the reader (uint64_t, size_t)
WordBits == 2
\* size of the object a reader is opened on
MaxSize == 3
\* number of calls made on one reader
MaxReaderCalls == 2
\* number of calls made on one provider
MaxProviderCalls == 2

(* ------------------------------ values --------------------------------- *)
Bytes == {1, 2}
NoFile == <<0>>
NoReq == <<0>>

RECURSIVE SeqsUpTo(_)
SeqsUpTo(n) ==
  IF n = 0 THEN {<< >>}
  ELSE LET S == SeqsUpTo(n - 1)
       IN  S \cup {Append(s, b) : s \in {t \in S : Len(t) = n - 1}, b \in Bytes}

Prefixes(c) == {SubSeq(c, 1, k) : k \in 0..Len(c)}

Min(a, b) == IF a < b THEN a ELSE b

\* the two kinds of file a writer is constructed for, and the staging names
ManifestName == "MANIFEST-000001"
SstName == "000007.sst"
TmpSuffix == ".tmp"
Paths == {ManifestName, ManifestName \o TmpSuffix,
          SstName, SstName \o TmpSuffix, SstName \o TmpSuffix \o TmpSuffix}

\* the destination object of a writer, the source object of GetObject
ObjKeys == {"db/" \o ManifestName, "db/" \o SstName}

(* ------------------------------ state ---------------------------------- *)
VARIABLES
  fs,                    \* local file system: path -> content or NoFile
  cloud,                 \* remote store: object key -> content or NoFile
  \* CloudStorageWritableFile
  wpc,                   \* "new", "open", "crashed"
  fname_,                \* local file name
  cloud_fname_,          \* destination object
  is_manifest_,
  keep_local_sst_files,  \* CloudEnvOptions
  local_file_,           \* path of the file the open handle writes, "" = null
  tmp_file_,             \* name of the side file, "" = empty
  status_,
  \* observation of the writer
  contentA,              \* content of fname_ when the writer was constructed
  written,               \* all bytes appended through the writer
  syncCalls, closeCalls,
  renamed,               \* the side file has been renamed over fname_
  wroteAfterSync,        \* an Append followed a Sync call
  renameTries,           \* the RenameFile calls of the writer so far
  uploads,               \* the upload requests of the writer so far
  syncedOk,              \* a Sync call has returned OK
  wlast,                 \* what the last call did and returned
  \* CloudStorageProvider::GetObject
  gpc,                   \* "off", "idle", "downloaded", "done"
  local_destination,
  object_path,
  remote_size,           \* the size the remote side reported
  gret,                  \* the status GetObject returned
  destBefore,            \* content of local_destination before the call
  glast,                 \* what the call did
  calls,                 \* the GetObject calls that run side by side
  \* S3StorageProvider::ListObjects
  lpc,                   \* "off", "idle", "loop", "done", "crashed"
  storeKeys,             \* the keys the bucket holds
  list_path,             \* the object_path argument
  prefix,                \* the normalized prefix
  marker,                \* the starting object marker of the next request
  result,                \* the caller's result vector
  lret,                  \* the status ListObjects returned
  resultBefore,          \* the result vector before the call
  pages,                 \* the pages the store has served, in order
  \* S3StorageProvider::EmptyBucket
  epc,                   \* "off", "listing", "deleting", "done"
  eret,                  \* st, the status EmptyBucket returns
  dels,                  \* the delete requests issued, in order
  \* CloudStorageReadableFile / S3ReadableFile
  rpc,                   \* "off", "new", "open", "failed"
  robject,               \* remote store: the object the reader is opened on
  sizeQueries,           \* the size (HEAD) queries issued for the reader
  file_size_,            \* the known size of the object
  offset_,               \* the cursor of sequential reads
  readerCalls,
  rlast,                 \* what the last call did and returned
  \* S3StorageProvider
  ppc,                   \* "off", "new" (before SanitizeOptions), "ready"
  pstatus_,              \* CloudStorageProvider::status_
  s3client_,             \* TRUE once the store client exists
  opts,                  \* CloudEnvOptions: the buckets, create_bucket_if_missing
  buckets,               \* remote store: bucket name -> "absent", "mine", "other"
  providerCalls,
  plast                  \* what the last call did and returned

envvars == <<fs, cloud>>
wstate == <<wpc, fname_, cloud_fname_, is_manifest_, keep_local_sst_files,
            local_file_, tmp_file_, status_>>
wobs == <<contentA, written, syncCalls, closeCalls, renamed, wroteAfterSync,
          renameTries, uploads,
          syncedOk, wlast>>
wvars == <<wstate, wobs>>

\* CloudStorageProvider::GetObject
gstate == <<gpc, local_destination, object_path, remote_size, gret>>
gobs == <<destBefore, glast>>
gvars == <<gstate, gobs, calls>>

\* S3StorageProvider::ListObjects
lstate == <<lpc, storeKeys, list_path, prefix, marker, result, lret>>
lobs == <<resultBefore, pages>>
estate == <<epc, eret>>
eobs == <<dels>>
evars == <<estate, eobs>>
lvars == <<lstate, lobs, evars>>

\* CloudStorageReadableFile
rstate == <<rpc, file_size_, offset_, robject>>
robs == <<readerCalls, rlast, sizeQueries>>
rvars == <<rstate, robs>>

\* S3StorageProvider
pstate == <<ppc, pstatus_, s3client_, opts, buckets>>
pobs == <<providerCalls, plast>>
pvars == <<pstate, pobs>>

vars == <<envvars, wvars, gvars, lvars, rvars, pvars>>

(* --------------------- local environment (Env) ------------------------- *)
Exists(f, path) == f[path] # NoFile

\* Env::FileExists: OK, NotFound, or another error
FileExists(f, path, err) ==
  IF err THEN "IOError" ELSE IF Exists(f, path) THEN "OK" ELSE "NotFound"

\* Env::NewWritableFile creates the file, or truncates an existing one
NewWritableFile(f, path) == [f EXCEPT ![path] = << >>]

\* Env::RenameFile replaces `to' by `from' in one step
RenameFile(f, from, to) == [f EXCEPT ![to] = f[from], ![from] = NoFile]

\* Env::DeleteFile
DeleteFile(f, path) == [f EXCEPT ![path] = NoFile]

\* filename.h: IsManifestFile
IsManifestFile(name) == name = ManifestName

\* an upload that sends a file of any size
PutObjectAnySize(f, local_file, sizeOk, putOk) ==
  IF ~sizeOk \/ ~Exists(f, local_file)
    THEN [st |-> "IOError", req |-> NoReq, sent |-> FALSE]
  ELSE [st |-> IF putOk THEN "OK" ELSE "IOError",
        req |-> f[local_file], sent |-> TRUE]

(* ----------------------------- PutObject ------------------------------- *)
\* CloudStorageProvider::PutObject: the status and the upload request issued
PutObject(f, local_file, sizeOk, putOk) ==
  IF ~sizeOk \/ ~Exists(f, local_file)
    THEN [st |-> "IOError", req |-> NoReq, sent |-> FALSE]
  ELSE IF Len(f[local_file]) = 0
    THEN [st |-> "IOError", req |-> NoReq, sent |-> FALSE]
  ELSE [st |-> IF putOk THEN "OK" ELSE "IOError",
        req |-> f[local_file], sent |-> TRUE]

\* CloudEnvImpl::CopyLocalFileToDest: the provider's whole-object put path
CopyLocalFileToDest(f, local_file, sizeOk, putOk) ==
  PutObject(f, local_file, sizeOk, putOk)

\* the store after an upload
Stored(c, key, put) ==
  IF put.sent /\ put.st = "OK" THEN [c EXCEPT ![key] = put.req] ELSE c

NoPut == [st |-> "OK", req |-> NoReq, sent |-> FALSE]

Last(op, ret, hadHandle, flushOk, renameTried, localOk, put, delTried) ==
  [op |-> op, ret |-> ret, hadHandle |-> hadHandle, flushOk |-> flushOk,
   renameTried |-> renameTried, localOk |-> localOk, put |-> put,
   delTried |-> delTried]

(* ------------------------ CloudStorageWritableFile --------------------- *)
WInit ==
  /\ wpc = "new"
  /\ fname_ \in {ManifestName, SstName}
  /\ cloud_fname_ = "db/" \o fname_
  /\ is_manifest_ = FALSE
  /\ keep_local_sst_files \in BOOLEAN
  /\ local_file_ = ""
  /\ tmp_file_ = ""
  /\ status_ = "OK"
  /\ \E a \in {NoFile, <<1>>, <<2, 1>>}, t \in {NoFile, <<2>>} :
       fs = [p \in Paths |-> IF p = fname_ THEN a
                             ELSE IF p = fname_ \o TmpSuffix THEN t
                             ELSE NoFile]
  /\ cloud \in {[k \in ObjKeys |-> NoFile],
                [k \in ObjKeys |-> IF k = cloud_fname_ THEN <<1>> ELSE NoFile]}
  /\ contentA = fs[fname_]
  /\ written = << >>
  /\ syncCalls = 0
  /\ closeCalls = 0
  /\ renamed = FALSE
  /\ wroteAfterSync = FALSE
  /\ renameTries = 0
  /\ uploads = 0
  /\ syncedOk = FALSE
  /\ wlast = Last("none", "OK", FALSE, FALSE, FALSE, FALSE, NoPut, FALSE)

\* a constructor that opens the live name even when the manifest exists
FileToOpenLive(name, man, exists) == name

\* the constructor's choice of the file to open: the side file when the
\* manifest exists
FileToOpen(name, man, exists) ==
  IF man /\ exists = "OK" THEN name \o TmpSuffix ELSE name

\* CloudStorageWritableFile::CloudStorageWritableFile
Construct ==
  /\ wpc = "new"
  /\ \E feErr \in BOOLEAN, openOk \in BOOLEAN :
       LET man == IsManifestFile(fname_)
           s1 == IF man THEN FileExists(fs, fname_, feErr) ELSE "NotFound"
           open == FileToOpen(fname_, man, s1)
       IN  /\ is_manifest_' = man
           /\ IF man /\ s1 # "OK" /\ s1 # "NotFound"
                THEN /\ status_' = s1
                     /\ UNCHANGED <<fs, local_file_, tmp_file_>>
                ELSE /\ tmp_file_' = IF open = fname_ THEN "" ELSE open
                     /\ IF openOk
                          THEN /\ fs' = NewWritableFile(fs, open)
                               /\ local_file_' = open
                               /\ status_' = "OK"
                          ELSE /\ status_' = "IOError"
                               /\ UNCHANGED <<fs, local_file_>>
  /\ wpc' = "open"
  /\ wlast' = Last("Construct", status_', local_file_' # "", FALSE, FALSE,
                   FALSE, NoPut, FALSE)
  /\ UNCHANGED <<cloud, fname_, cloud_fname_, keep_local_sst_files,
                 contentA, written, syncCalls, closeCalls, renamed,
                 wroteAfterSync, renameTries, uploads, syncedOk>>
  /\ UNCHANGED <<gvars, lvars, rvars, pvars>>

\* CloudStorageWritableFile::Append: the bytes go to the open local file
AppendByte ==
  /\ wpc = "open"
  /\ local_file_ # ""
  /\ Len(written) < MaxAppends
  /\ \E b \in Bytes :
       /\ fs' = [fs EXCEPT ![local_file_] = Append(@, b)]
       /\ written' = Append(written, b)
  /\ wroteAfterSync' = (wroteAfterSync \/ syncCalls > 0)
  /\ wlast' = Last("Append", "OK", TRUE, FALSE, FALSE, FALSE, NoPut,
                   FALSE)
  /\ UNCHANGED <<cloud, wstate, contentA, syncCalls, closeCalls, renamed,
                 renameTries, uploads, syncedOk>>
  /\ UNCHANGED <<gvars, lvars, rvars, pvars>>

\* a Sync that only logs the failure of the upload
SyncStatusLocal(afterLocal, put) == afterLocal

\* the status Sync returns after the manifest upload
SyncStatus(afterLocal, put) == put.st

\* a Sync that keeps the name of the side file after the rename
TmpFileKept(doRename, tmp) == tmp

\* tmp_file_ after Sync: cleared once the rename has been attempted
TmpFileAfter(doRename, tmp) == IF doRename THEN "" ELSE tmp

\* CloudStorageWritableFile::Sync
Sync ==
  /\ wpc = "open"
  /\ syncCalls < MaxSyncs
  /\ syncCalls' = syncCalls + 1
  /\ IF local_file_ = ""
       THEN /\ wlast' = Last("Sync", status_, FALSE, FALSE, FALSE, FALSE,
                             NoPut, FALSE)
            /\ UNCHANGED <<fs, cloud, local_file_, tmp_file_, renamed,
                           renameTries>>
       ELSE \E flushOk \in BOOLEAN, renameOk \in BOOLEAN,
               sizeOk \in BOOLEAN, putOk \in BOOLEAN :
            LET doRename == flushOk /\ tmp_file_ # ""
                fs1 == IF doRename /\ renameOk
                         THEN RenameFile(fs, tmp_file_, fname_) ELSE fs
                stat1 == IF ~flushOk THEN "IOError"
                         ELSE IF doRename /\ ~renameOk THEN "IOError"
                         ELSE "OK"
                doPut == is_manifest_ /\ stat1 = "OK"
                put == IF doPut
                         THEN CopyLocalFileToDest(fs1, fname_, sizeOk, putOk)
                         ELSE NoPut
                stat == IF doPut THEN SyncStatus(stat1, put) ELSE stat1
            IN  /\ fs' = fs1
                /\ tmp_file_' = TmpFileAfter(doRename, tmp_file_)
                /\ renameTries' = renameTries + (IF doRename THEN 1 ELSE 0)
                /\ local_file_' = IF doRename /\ renameOk /\
                                     local_file_ = tmp_file_
                                    THEN fname_ ELSE local_file_
                /\ renamed' = (renamed \/ (doRename /\ renameOk))
                /\ cloud' = Stored(cloud, cloud_fname_, put)
                /\ wlast' = Last("Sync", stat, TRUE, flushOk, doRename,
                                 stat1 = "OK", put, FALSE)
  /\ syncedOk' = (syncedOk \/ wlast'.ret = "OK")
  /\ uploads' = uploads + (IF wlast'.put.sent THEN 1 ELSE 0)
  /\ UNCHANGED <<wpc, fname_, cloud_fname_, is_manifest_,
                 keep_local_sst_files, status_, contentA, written,
                 closeCalls, wroteAfterSync>>
  /\ UNCHANGED <<gvars, lvars, rvars, pvars>>

\* a Close that pushes the manifest as well
ClosePushesAll(man) == TRUE

\* Close pushes and deletes only for an ordinary file
ClosePushes(man) == ~man

\* a Close that ignores keep_local_sst_files
CloseDeletesAlways(pushed, keep) == pushed = "OK"

\* a Close that deletes the local file whatever the push returned
CloseDeletesUnpushed(pushed, keep) == ~keep

\* the local file is deleted after a successful push unless it is kept
CloseDeletes(pushed, keep) == pushed = "OK" /\ ~keep

\* a Close that does not look at the handle
AlreadyClosedNever(handle) == FALSE

\* the test Close starts with: the local handle has been released
AlreadyClosed(handle) == handle = ""

\* CloudStorageWritableFile::Close
Close ==
  /\ wpc = "open"
  /\ closeCalls < MaxCloses
  /\ closeCalls' = closeCalls + 1
  /\ IF AlreadyClosed(local_file_)
       THEN /\ wlast' = Last("Close", status_, FALSE, FALSE, FALSE, FALSE,
                             NoPut, FALSE)
            /\ UNCHANGED <<fs, cloud, local_file_, status_>>
       ELSE \E closeOk \in BOOLEAN, sizeOk \in BOOLEAN, putOk \in BOOLEAN,
               delOk \in BOOLEAN :
            IF ~closeOk
              THEN /\ wlast' = Last("Close", "IOError", TRUE, FALSE, FALSE,
                                    FALSE, NoPut, FALSE)
                   /\ UNCHANGED <<fs, cloud, local_file_, status_>>
            ELSE IF ~ClosePushes(is_manifest_)
              THEN /\ local_file_' = ""
                   /\ wlast' = Last("Close", "OK", TRUE, FALSE, FALSE, TRUE,
                                    NoPut, FALSE)
                   /\ UNCHANGED <<fs, cloud, status_>>
            ELSE LET put == CopyLocalFileToDest(fs, fname_, sizeOk, putOk)
                     del == CloseDeletes(put.st, keep_local_sst_files)
                     st == IF put.st # "OK" THEN put.st
                           ELSE IF del /\ ~delOk THEN "IOError"
                           ELSE "OK"
                 IN  /\ local_file_' = ""
                     /\ cloud' = Stored(cloud, cloud_fname_, put)
                     /\ fs' = IF del /\ delOk THEN DeleteFile(fs, fname_)
                              ELSE fs
                     /\ status_' = st
                     /\ wlast' = Last("Close", st, TRUE, FALSE, FALSE, TRUE,
                                      put, del)
  /\ uploads' = uploads + (IF wlast'.put.sent THEN 1 ELSE 0)
  /\ UNCHANGED <<wpc, fname_, cloud_fname_, is_manifest_,
                 keep_local_sst_files, tmp_file_, contentA, written,
                 syncCalls, renamed, wroteAfterSync, renameTries, syncedOk>>
  /\ UNCHANGED <<gvars, lvars, rvars, pvars>>

\* the process is killed: the handle is lost, the files stay as they are
Crash ==
  /\ wpc = "open"
  /\ wpc' = "crashed"
  /\ UNCHANGED <<envvars, fname_, cloud_fname_, is_manifest_,
                 keep_local_sst_files, local_file_, tmp_file_, status_, wobs>>
  /\ UNCHANGED <<gvars, lvars, rvars, pvars>>

WNext == Construct \/ AppendByte \/ Sync \/ Close \/ Crash

(* ---------------------- CloudStorageProvider::GetObject ---------------- *)
\* one of several GetObject calls: its position, its arguments, what the
\* remote side reported, what it returned, and the faults it met
Call(pc, dest, object, remote, ret, dl, wrote, sizeFault, renameFault) ==
  [pc |-> pc, local_destination |-> dest, object |-> object,
   remote_size |-> remote, ret |-> ret, dl |-> dl, wrote |-> wrote,
   sizeFault |-> sizeFault, renameFault |-> renameFault]

Callers == {"a", "b"}
NoCalls ==
  [c \in Callers |-> Call("off", "", NoFile, 0, "OK", "none", NoFile,
                          FALSE, FALSE)]

GLast(dl, local_size, sizeOk, renameTried, delTried) ==
  [dl |-> dl, local_size |-> local_size, sizeOk |-> sizeOk,
   renameTried |-> renameTried, delTried |-> delTried]

GInit ==
  /\ gpc = "idle"
  /\ local_destination \in {ManifestName, SstName}
  /\ object_path = "db/" \o local_destination
  /\ remote_size = 0
  /\ gret = "OK"
  /\ \E d \in {NoFile, <<1>>}, t \in {NoFile, <<2>>} :
       fs = [p \in Paths |-> IF p = local_destination THEN d
                             ELSE IF p = local_destination \o TmpSuffix THEN t
                             ELSE NoFile]
  /\ \E c \in {NoFile} \cup SeqsUpTo(MaxObjLen) :
       cloud = [k \in ObjKeys |-> IF k = object_path THEN c ELSE NoFile]
  /\ destBefore = fs[local_destination]
  /\ glast = GLast("none", 0, FALSE, FALSE, FALSE)
  /\ calls = NoCalls

\* a comparison that accepts a short local file
SizesMatchShort(local_size, remote) == local_size <= remote

\* the comparison of the measured local size with the reported remote size
SizesMatch(local_size, remote) == local_size = remote

\* the failure paths of GetObject on which the staging file is deleted; the
\* status of that DeleteFile is discarded, and the delete is taken to succeed
StagingDeleted(path) == path \in {"download", "mismatch"}

\* S3StorageProvider::DoGetObject writes the object to the staging file; the
\* first half of GetObject: a failed download deletes the staging file
DoGetObject ==
  /\ gpc = "idle"
  /\ \E ok \in BOOLEAN, wrote \in {NoFile} \cup Prefixes(
                  IF cloud[object_path] = NoFile THEN << >>
                  ELSE cloud[object_path]) :
       LET tmp_destination == local_destination \o TmpSuffix
           s == IF cloud[object_path] = NoFile THEN "NotFound"
                ELSE IF ok THEN "OK" ELSE "IOError"
           \* a failed transfer leaves nothing, or a part of the object
           fs1 == IF wrote = NoFile THEN fs
                  ELSE [fs EXCEPT ![tmp_destination] = wrote]
       IN  /\ s = "OK" => wrote # NoFile
           /\ IF s # "OK"
                THEN /\ fs' = IF StagingDeleted("download")
                                THEN DeleteFile(fs1, tmp_destination) ELSE fs1
                     /\ gret' = s
                     /\ gpc' = "done"
                     /\ remote_size' = remote_size
                     /\ glast' = GLast(s, 0, FALSE, FALSE,
                                       StagingDeleted("download"))
                ELSE /\ fs' = fs1
                     /\ remote_size' = Len(cloud[object_path])
                     /\ gpc' = "downloaded"
                     /\ gret' = gret
                     /\ glast' = GLast(s, 0, FALSE, FALSE, FALSE)
  /\ UNCHANGED <<cloud, local_destination, object_path, destBefore, calls>>
  /\ UNCHANGED <<wvars, lvars, rvars, pvars>>

\* the second half of GetObject: measure, compare, rename
GetObjectFinish ==
  /\ gpc = "downloaded"
  /\ \E sizeOk \in BOOLEAN, renameOk \in BOOLEAN :
       LET tmp_destination == local_destination \o TmpSuffix
           local_size == Len(fs[tmp_destination])
       IN  IF ~sizeOk
             THEN /\ gret' = "IOError"
                  /\ fs' = IF StagingDeleted("getsize")
                             THEN DeleteFile(fs, tmp_destination) ELSE fs
                  /\ glast' = GLast("OK", 0, FALSE, FALSE,
                                    StagingDeleted("getsize"))
           ELSE IF ~SizesMatch(local_size, remote_size)
             THEN /\ gret' = "IOError"
                  /\ fs' = IF StagingDeleted("mismatch")
                             THEN DeleteFile(fs, tmp_destination) ELSE fs
                  /\ glast' = GLast("OK", local_size, TRUE, FALSE,
                                    StagingDeleted("mismatch"))
           ELSE IF renameOk
             THEN /\ gret' = "OK"
                  /\ fs' = RenameFile(fs, tmp_destination, local_destination)
                  /\ glast' = GLast("OK", local_size, TRUE, TRUE, FALSE)
           ELSE /\ gret' = "IOError"
                /\ fs' = IF StagingDeleted("rename")
                           THEN DeleteFile(fs, tmp_destination) ELSE fs
                /\ glast' = GLast("OK", local_size, TRUE, TRUE,
                                  StagingDeleted("rename"))
  /\ gpc' = "done"
  /\ UNCHANGED <<cloud, local_destination, object_path, remote_size,
                 destBefore, calls>>
  /\ UNCHANGED <<wvars, lvars, rvars, pvars>>

GNext == DoGetObject \/ GetObjectFinish

(* ----------------- GetObject calls running side by side ---------------- *)
\* the local destinations the callers pass: a data file, a name that ends
\* in the staging suffix, and the manifest
CDests == {SstName, SstName \o TmpSuffix, ManifestName}

\* the object each caller downloads
CObject(c) == IF c = "a" THEN <<1>> ELSE <<2, 2>>

\* two calls with different local destinations
CInit ==
  \E da \in CDests :
    \E db \in CDests \ {da} :
         calls = [c \in Callers |->
                    Call("idle", IF c = "a" THEN da ELSE db, CObject(c), 0,
                         "OK", "none", NoFile, FALSE, FALSE)]

\* the staging path of a call
TmpDestination(dest) == dest \o TmpSuffix

\* the first half of the call of caller c: the download into the staging
\* file, which is deleted when the download failed
CDoGetObject(c) ==
  /\ calls[c].pc = "idle"
  /\ \E ok \in BOOLEAN, wrote \in {NoFile} \cup Prefixes(calls[c].object) :
       LET k == calls[c]
           tmp_destination == TmpDestination(k.local_destination)
           s == IF ok THEN "OK" ELSE "IOError"
           fs1 == IF wrote = NoFile THEN fs
                  ELSE [fs EXCEPT ![tmp_destination] = wrote]
       IN  /\ ok => wrote # NoFile
           /\ fs' = IF s # "OK" THEN DeleteFile(fs1, tmp_destination)
                     ELSE fs1
           /\ calls' = [calls EXCEPT ![c] =
                 [k EXCEPT !.pc = IF s = "OK" THEN "downloaded" ELSE "done",
                           !.ret = s, !.dl = s, !.wrote = wrote,
                           !.remote_size = IF s = "OK" THEN Len(k.object)
                                           ELSE 0]]
  /\ UNCHANGED <<cloud, gstate, gobs>>
  /\ UNCHANGED <<wvars, lvars, rvars, pvars>>

\* the second half: GetFileSize of the staging file (it fails when the file
\* is not there), the comparison, and the rename or the delete
CGetObjectFinish(c) ==
  /\ calls[c].pc = "downloaded"
  /\ \E sizeFault \in BOOLEAN, renameFault \in BOOLEAN :
       LET k == calls[c]
           tmp_destination == TmpDestination(k.local_destination)
           sizeOk == ~sizeFault /\ fs[tmp_destination] # NoFile
           local_size == Len(fs[tmp_destination])
           renamed_ == /\ sizeOk
                       /\ SizesMatch(local_size, k.remote_size)
                       /\ ~renameFault
       IN  /\ fs' = IF renamed_
                       THEN RenameFile(fs, tmp_destination,
                                       k.local_destination)
                     ELSE IF sizeOk /\ ~SizesMatch(local_size, k.remote_size)
                       THEN DeleteFile(fs, tmp_destination)
                     ELSE fs
           /\ calls' = [calls EXCEPT ![c] =
                 [k EXCEPT !.pc = "done",
                           !.ret = IF renamed_ THEN "OK" ELSE "IOError",
                           !.sizeFault = sizeFault,
                           !.renameFault = renameFault]]
  /\ UNCHANGED <<cloud, gstate, gobs>>
  /\ UNCHANGED <<wvars, lvars, rvars, pvars>>

CNext == \E c \in Callers : CDoGetObject(c) \/ CGetObjectFinish(c)

(* ---------------------- S3StorageProvider::ListObjects ----------------- *)
\* keys are sequences of characters; Sep is the path separator '/'
Sep == 0
\* the page size ListObjects asks for
ListMaxKeys == 50

RECURSIVE LexLess(_, _)
\* the store's key order
LexLess(a, b) ==
  IF Len(b) = 0 THEN FALSE
  ELSE IF Len(a) = 0 THEN TRUE
  ELSE IF a[1] # b[1] THEN a[1] < b[1]
  ELSE LexLess(Tail(a), Tail(b))

RECURSIVE Sorted(_)
\* the keys of a set in the store's key order
Sorted(S) ==
  IF S = {} THEN << >>
  ELSE LET m == CHOOSE k \in S : \A o \in S \ {k} : LexLess(k, o)
       IN  <<m>> \o Sorted(S \ {m})

\* filename.h: ltrim_if
ltrim_if(s, c) == IF Len(s) > 0 /\ s[1] = c THEN Tail(s) ELSE s

\* filename.h: ensure_ends_with_pathsep
ensure_ends_with_pathsep(s) ==
  IF Len(s) > 0 /\ s[Len(s)] = Sep THEN s ELSE Append(s, Sep)

\* keystr.find(prefix) == 0
StartsWith(k, p) == Len(k) >= Len(p) /\ SubSeq(k, 1, Len(p)) = p

\* keystr.substr(prefix.size())
Strip(k, p) == SubSeq(k, Len(p) + 1, Len(k))

\* the store's answer to a request: the keys under the prefix after the marker
Remaining(keys, p, mk) ==
  Sorted({k \in keys : StartsWith(k, p) /\ (mk = << >> \/ LexLess(mk, k))})

RECURSIVE EmitSkipping(_, _, _)
\* a loop that drops the keys that do not begin with the prefix
EmitSkipping(res, objs, p) ==
  IF objs = << >> THEN [result |-> res, ok |-> TRUE]
  ELSE IF ~StartsWith(Head(objs), p) THEN EmitSkipping(res, Tail(objs), p)
  ELSE EmitSkipping(Append(res, Strip(Head(objs), p)), Tail(objs), p)

RECURSIVE EmitDiscarding(_, _, _)
\* a loop that hands back an empty result when a key is outside the prefix
EmitDiscarding(res, objs, p) ==
  IF objs = << >> THEN [result |-> res, ok |-> TRUE]
  ELSE IF ~StartsWith(Head(objs), p) THEN [result |-> << >>, ok |-> FALSE]
  ELSE EmitDiscarding(Append(res, Strip(Head(objs), p)), Tail(objs), p)

RECURSIVE Emit(_, _, _)
\* the loop over the objects of one page: the result vector and whether every
\* key began with the prefix (the assert before the test is compiled out of
\* a release build)
Emit(res, objs, p) ==
  IF objs = << >> THEN [result |-> res, ok |-> TRUE]
  ELSE IF ~StartsWith(Head(objs), p) THEN [result |-> res, ok |-> FALSE]
  ELSE Emit(Append(res, Strip(Head(objs), p)), Tail(objs), p)

\* a fallback that restarts from the first key of the page
NextMarkerFirst(token, objs) ==
  IF token # << >> THEN token ELSE objs[1]

\* the starting point of the next request after a truncated page
NextMarker(token, objs) ==
  IF token # << >> THEN token ELSE objs[Len(objs)]

\* the store's error types that mean not-found
IsNotFound(s3err) ==
  s3err \in {"NO_SUCH_BUCKET", "NO_SUCH_KEY", "RESOURCE_NOT_FOUND"}

ThePrefix == <<1, Sep>>
UnderKeys == {ThePrefix \o <<c>> : c \in 1..MaxStoreKeys} \cup {ThePrefix \o <<1, 1>>}
OtherKeys == {<<1, 1>>, <<2, Sep, 1>>}
\* the keys a store that breaks its contract puts into a page
RogueKeys == {<<1, 1>>}

\* the page `objs' with the key k put before its entry pos; pos = 0: no key
WithRogue(objs, k, pos) ==
  IF pos = 0 THEN objs
  ELSE SubSeq(objs, 1, pos - 1) \o <<k>> \o SubSeq(objs, pos, Len(objs))

\* a page of the store
Page(objs, truncated, token, err) ==
  [n |-> Len(objs), objs |-> objs, truncated |-> truncated, token |-> token,
   err |-> err]

LInit ==
  /\ lpc = "idle"
  /\ \E U \in SUBSET UnderKeys, O \in SUBSET OtherKeys : storeKeys = U \cup O
  /\ list_path \in {<<1>>, <<1, Sep>>, <<Sep, 1>>}
  /\ prefix = << >>
  /\ marker = << >>
  /\ \E n \in 0..MaxPre : result = [i \in 1..n |-> <<2>>]
  /\ lret = "OK"
  /\ resultBefore = result
  /\ pages = << >>

\* ListObjects up to its loop: the prefix is normalized, the marker is empty
ListObjectsBegin ==
  /\ lpc = "idle"
  /\ prefix' = ensure_ends_with_pathsep(ltrim_if(list_path, Sep))
  /\ marker' = << >>
  /\ lpc' = "loop"
  /\ UNCHANGED <<storeKeys, list_path, result, lret, resultBefore, pages>>
  /\ UNCHANGED <<evars, envvars, wvars, gvars, rvars, pvars>>

\* one iteration of the loop of ListObjects: one request and its page
ListObjectsPage ==
  /\ lpc = "loop"
  /\ \E err \in {"none", "NO_SUCH_BUCKET", "ACCESS_DENIED"} :
       IF err # "none"
         THEN /\ lret' = IF IsNotFound(err) THEN "NotFound" ELSE "IOError"
              /\ lpc' = "done"
              /\ pages' = Append(pages, Page(<< >>, FALSE, FALSE, err))
              /\ UNCHANGED <<marker, result>>
         ELSE LET rest == Remaining(storeKeys, prefix, marker)
              IN  \E n \in (IF rest = << >> THEN {0}
                            ELSE 1..Min(ListMaxKeys, Len(rest))),
                     withToken \in BOOLEAN, rogue \in RogueKeys :
                  \E pos \in 0..(n + 1) :
                    LET objs == WithRogue(SubSeq(rest, 1, n), rogue, pos)
                        truncated == n < Len(rest)
                        token == IF withToken /\ truncated
                                   THEN objs[Len(objs)] ELSE << >>
                        e == Emit(result, objs, prefix)
                    IN  /\ result' = e.result
                        /\ pages' = Append(pages,
                                      Page(objs, truncated, token # << >>,
                                           "none"))
                        /\ IF ~e.ok
                             THEN /\ lret' = "IOError"
                                  /\ lpc' = "done"
                                  /\ marker' = marker
                           ELSE IF ~truncated
                             THEN /\ lret' = "OK"
                                  /\ lpc' = "done"
                                  /\ marker' = marker
                           ELSE /\ marker' = NextMarker(token, objs)
                                /\ lret' = lret
                                /\ lpc' = "loop"
  /\ UNCHANGED <<storeKeys, list_path, prefix, resultBefore>>
  /\ UNCHANGED <<evars, envvars, wvars, gvars, rvars, pvars>>

LNext == ListObjectsBegin \/ ListObjectsPage

\* what objs.back() yields on a page without objects is undefined: the
\* process crashes, or the marker becomes a string that is no key of the page
GarbageMarkers == {<<2>>}

\* the iteration of the loop on a truncated page that carries no key and no
\* token: nothing is emitted, and the marker is taken from objs.back()
ListObjectsEmptyPage ==
  /\ lpc = "loop"
  /\ Remaining(storeKeys, prefix, marker) # << >>
  /\ pages' = Append(pages, Page(<< >>, TRUE, FALSE, "none"))
  /\ \E crash \in BOOLEAN, g \in GarbageMarkers :
       /\ marker' = IF crash THEN marker ELSE g
       /\ lpc' = IF crash THEN "crashed" ELSE "loop"
  /\ UNCHANGED <<storeKeys, list_path, prefix, result, lret, resultBefore>>
  /\ UNCHANGED <<evars, envvars, wvars, gvars, rvars, pvars>>

\* ListObjects on a store that may serve such a page
LEmptyNext == LNext \/ ListObjectsEmptyPage

(* ------------------------ S3StorageProvider::EmptyBucket --------------- *)
\* EmptyBucket has called ListObjects with an empty vector
EInit ==
  /\ epc = "listing"
  /\ eret = "OK"
  /\ dels = << >>

\* the outcomes of the delete request of EmptyBucket
EmptyDeleteOutcomes == {"none", "ACCESS_DENIED"}

\* the status of DeleteObject
DeleteStatus(err) ==
  IF err = "none" THEN "OK"
  ELSE IF IsNotFound(err) THEN "NotFound" ELSE "IOError"

\* a loop that keeps the first failure
LoopStatusFirstFailure(st, del) == IF st # "OK" THEN st ELSE del

\* st = DeleteObject(bucket_name, path): the status after one more delete
LoopStatus(st, del) == del

\* ListObjects has returned to EmptyBucket
EmptyBucketListed ==
  /\ epc = "listing"
  /\ lpc = "done"
  /\ eret' = lret
  /\ epc' = IF lret = "OK" /\ result # << >> THEN "deleting" ELSE "done"
  /\ UNCHANGED <<lstate, lobs, dels>>
  /\ UNCHANGED <<envvars, wvars, gvars, rvars, pvars>>

\* one iteration of the loop of EmptyBucket: one DeleteObject
EmptyBucketDelete ==
  /\ epc = "deleting"
  /\ Len(dels) < Len(result)
  /\ \E err \in EmptyDeleteOutcomes :
       LET path == result[Len(dels) + 1]
       IN  /\ dels' = Append(dels, [path |-> path, err |-> err])
           /\ storeKeys' = IF err = "none" THEN storeKeys \ {path}
                            ELSE storeKeys
           /\ eret' = LoopStatus(eret, DeleteStatus(err))
  /\ epc' = IF Len(dels') = Len(result) THEN "done" ELSE "deleting"
  /\ UNCHANGED <<lpc, list_path, prefix, marker, result, lret, lobs>>
  /\ UNCHANGED <<envvars, wvars, gvars, rvars, pvars>>

ENext == EmptyBucketListed \/ EmptyBucketDelete

(* ------------------ CloudStorageReadableFile, S3ReadableFile ------------ *)
\* the unsigned integers wrap at 2^WordBits
Word == 2 ^ WordBits

\* the record of a call: the cursor or offset and the length it was made
\* with, the status and the number of bytes returned, the number of GETs
\* issued, the range lo..hi of the GET, whether the store served it in full,
\* and the error type of the GET ("none": no failure)
RLast(op, offset, n, ret, bytes, reqs, lo, hi, full, err) ==
  [op |-> op, offset |-> offset, n |-> n, ret |-> ret, bytes |-> bytes,
   reqs |-> reqs, lo |-> lo, hi |-> hi, full |-> full, err |-> err,
   msg404 |-> FALSE]

\* an object of the store: whether it exists and its size
Object(exists, size) == [exists |-> exists, size |-> size]

\* NewCloudReadableFile is about to be called on an object of the store
RInit ==
  /\ rpc = "new"
  /\ robject \in {Object(FALSE, 0)} \cup {Object(TRUE, s) : s \in 0..MaxSize}
  /\ file_size_ = 0
  /\ offset_ = 0
  /\ readerCalls = 0
  /\ sizeQueries = 0
  /\ rlast = RLast("none", 0, 0, "OK", 0, 0, 0, 0, FALSE, "none")

\* the outcomes of the size query
HeadOutcomes(o) ==
  IF o.exists THEN {"none", "ACCESS_DENIED"}
  ELSE {"RESOURCE_NOT_FOUND", "NO_SUCH_KEY", "ACCESS_DENIED"}

\* S3StorageProvider::GetObjectSize, HeadObject: the status of the query
HeadStatus(err) ==
  IF err = "none" THEN "OK"
  ELSE IF IsNotFound(err) THEN "NotFound" ELSE "IOError"

\* a reader is made whatever the query returned
ReaderMadeAlways(st) == TRUE

\* NewCloudReadableFile makes the reader when the size query succeeded
ReaderMade(st) == st = "OK"

\* CloudStorageProvider::NewCloudReadableFile
NewCloudReadableFile ==
  /\ rpc = "new"
  /\ sizeQueries' = sizeQueries + 1
  /\ \E err \in HeadOutcomes(robject) :
       LET st == HeadStatus(err)
       IN  /\ rpc' = IF ReaderMade(st) THEN "open" ELSE "failed"
           /\ file_size_' = IF ReaderMade(st) THEN robject.size
                             ELSE file_size_
           /\ rlast' = RLast("NewCloudReadableFile", 0, 0, st, 0, 0, 0, 0,
                             FALSE, err)
  /\ UNCHANGED <<offset_, robject, readerCalls>>
  /\ UNCHANGED <<envvars, wvars, gvars, lvars, pvars>>

\* a test that lets a read at the very end through
AtEofStrict(offset, size) == offset > size

\* the end-of-file test of the random-access Read
AtEof(offset, size) == offset >= size

\* a trim that drops the last byte of the object
TrimLengthShort(offset, n, size) ==
  IF (offset + n) % Word > size THEN size - offset - 1 ELSE n

\* the random-access Read trims the length to the known size
TrimLength(offset, n, size) ==
  IF (offset + n) % Word > size THEN size - offset ELSE n

\* a request of the logical length, empty for a read of 0 bytes
RangeLenRaw(n) == n

\* ranges are inclusive: a read of 0 bytes asks for 1 byte
RangeLen(n) == IF n # 0 THEN n ELSE 1

\* the last byte of the range "bytes=<offset>-<offset + rangeLen - 1>"
RangeEnd(offset, rangeLen) == (offset + rangeLen + Word - 1) % Word

\* a typing that looks at the error type only
ReadErrorStatusByType(err) ==
  IF IsNotFound(err.type) THEN "NotFound" ELSE "IOError"

\* the status of a failed ranged GET: the error type and whether the message
\* holds "Response code: 404"
ReadErrorStatus(err) ==
  IF IsNotFound(err.type) \/ err.msg404 THEN "NotFound" ELSE "IOError"

\* the outcome of a request that succeeded
NoErr == [type |-> "none", msg404 |-> FALSE]

\* the errors a GET of the store ends in
GetErrors ==
  {[type |-> "NO_SUCH_KEY", msg404 |-> FALSE],
   [type |-> "NO_SUCH_BUCKET", msg404 |-> FALSE],
   [type |-> "RESOURCE_NOT_FOUND", msg404 |-> FALSE],
   [type |-> "UNKNOWN", msg404 |-> TRUE],
   [type |-> "ACCESS_DENIED", msg404 |-> FALSE]}

\* the bytes the store holds in the range lo..hi of an object of `size'
\* bytes; a range whose end is before its start is ignored by the store,
\* which then serves the object from its first byte
Available(lo, hi, size) ==
  IF hi < lo THEN size
  ELSE IF lo >= size THEN 0
  ELSE Min(hi, size - 1) - lo + 1

\* S3ReadableFile::DoCloudRead with the answer of the store: a failure, or
\* `served' bytes of the body
DoCloudRead(offset, n, size, err, served) ==
  LET rangeLen == RangeLen(n)
      lo == offset
      hi == RangeEnd(offset, rangeLen)
      full == hi >= lo /\ served = hi - lo + 1
  IN  IF err # NoErr
        THEN [st |-> ReadErrorStatus(err), bytes_read |-> 0, lo |-> lo,
              hi |-> hi, full |-> FALSE, err |-> err.type,
              msg404 |-> err.msg404]
      ELSE [st |-> "OK", bytes_read |-> IF n # 0 THEN Min(n, served) ELSE 0,
            lo |-> lo, hi |-> hi, full |-> full, err |-> "none",
            msg404 |-> FALSE]

\* the answers of the store to the GET of a read at offset of n bytes
Answers(offset, n, size) ==
  LET hi == RangeEnd(offset, RangeLen(n))
  IN  IF hi >= offset /\ offset >= size
        \* the range starts behind the object: InvalidRange
        THEN {[err |-> [type |-> "INVALID_RANGE", msg404 |-> FALSE],
               served |-> 0]}
        ELSE {[err |-> e, served |-> 0] : e \in GetErrors}
             \cup {[err |-> NoErr, served |-> k] :
                     k \in 0..Available(offset, hi, size)}

\* CloudStorageReadableFile::Read(offset, n, result, scratch): the record of
\* the call
RandomRead(op, offset, n, size, a) ==
  IF AtEof(offset, size)
    THEN RLast(op, offset, n, "OK", 0, 0, 0, 0, FALSE, "none")
  ELSE LET d == DoCloudRead(offset, TrimLength(offset, n, size), size,
                            a.err, a.served)
       IN  [RLast(op, offset, n, d.st,
                  IF d.st = "OK" THEN d.bytes_read ELSE 0,
                  1, d.lo, d.hi, d.full, d.err)
              EXCEPT !.msg404 = d.msg404]

\* the answers of the store that a read can meet
ReadAnswers(offset, n, size) ==
  IF AtEof(offset, size) THEN {[err |-> NoErr, served |-> 0]}
  ELSE Answers(offset, TrimLength(offset, n, size), robject.size)

\* random access: Read(offset, n, result, scratch)
ReadAt ==
  /\ rpc = "open"
  /\ readerCalls < MaxReaderCalls
  /\ readerCalls' = readerCalls + 1
  /\ \E offset \in 0..(Word - 1), n \in 0..(Word - 1) :
       \E a \in ReadAnswers(offset, n, file_size_) :
         rlast' = RandomRead("ReadAt", offset, n, file_size_, a)
  /\ UNCHANGED <<rstate, sizeQueries>>
  /\ UNCHANGED <<envvars, wvars, gvars, lvars, pvars>>

\* a cursor that moves by the length asked for
AdvanceByLength(cursor, r) ==
  IF r.ret = "OK" THEN (cursor + r.n) % Word ELSE cursor

\* the cursor after the sequential read recorded in r:
\* if (s.ok()) offset_ += result->size()
Advance(cursor, r) ==
  IF r.ret = "OK" THEN (cursor + r.bytes) % Word ELSE cursor

\* sequential access: Read(n, result, scratch)
Read ==
  /\ rpc = "open"
  /\ readerCalls < MaxReaderCalls
  /\ readerCalls' = readerCalls + 1
  /\ \E n \in 0..(Word - 1) :
       \E a \in ReadAnswers(offset_, n, file_size_) :
         /\ rlast' = RandomRead("Read", offset_, n, file_size_, a)
         /\ offset_' = Advance(offset_, rlast')
  /\ UNCHANGED <<rpc, file_size_, robject, sizeQueries>>
  /\ UNCHANGED <<envvars, wvars, gvars, lvars, pvars>>

\* CloudStorageReadableFile::Skip
Skip ==
  /\ rpc = "open"
  /\ readerCalls < MaxReaderCalls
  /\ readerCalls' = readerCalls + 1
  /\ \E n \in 0..(Word - 1) :
       LET o == (offset_ + n) % Word
       IN  /\ offset_' = IF o > file_size_ THEN file_size_ ELSE o
           /\ rlast' = RLast("Skip", offset_, n, "OK", 0, 0, 0, 0, FALSE,
                             "none")
  /\ UNCHANGED <<rpc, file_size_, robject, sizeQueries>>
  /\ UNCHANGED <<envvars, wvars, gvars, lvars, pvars>>

RNext == NewCloudReadableFile \/ ReadAt \/ Read \/ Skip

(* ----------------------------- S3StorageProvider ---------------------- *)
BucketNames == {"b1", "b2"}
Regions == {"r1", "r2"}

\* a bucket that is not configured
NoBucket == [name |-> "", region |-> ""]

\* the bucket that holds the objects of `cloud'
ObjBucket == "b1"

\* one request to the store and the error type it ended in ("none": success)
Req(kind, target, err) == [kind |-> kind, target |-> target, err |-> err]

\* the record of a call; again: the call before it was the same call on the
\* same target and returned success
PLast(op, target, ret, reqs) ==
  [op |-> op, target |-> target, ret |-> ret, reqs |-> reqs,
   again |-> plast.op = op /\ plast.target = target /\ plast.ret = "OK"]

HasSrcBucket == opts.src.name # ""
HasDestBucket == opts.dest.name # ""

\* CloudEnv::SrcMatchesDest: the two roles name the identical bucket
SrcMatchesDest == HasSrcBucket /\ HasDestBucket /\ opts.src = opts.dest

\* the error types a failing request ends in whatever the store holds
Transient == {"ACCESS_DENIED", "NETWORK_CONNECTION"}

\* the outcomes of a create-bucket request
CreateOutcomes(b, name) ==
  Transient \cup
    (IF b[name] = "other" THEN {"BUCKET_ALREADY_EXISTS"}
     ELSE IF b[name] = "mine" THEN {"BUCKET_ALREADY_OWNED_BY_YOU", "none"}
     ELSE {"none"})

\* the outcomes of a head-bucket request
HeadBucketOutcomes(b, name) ==
  Transient \cup
    (IF b[name] = "mine" THEN {"none"}
     ELSE IF b[name] = "other" THEN {"ACCESS_DENIED"}
     ELSE {"NO_SUCH_BUCKET"})

\* the outcomes of a request that reads the object `key'
ReadOutcomes(b, c, key) ==
  Transient \cup
    (IF b[ObjBucket] # "mine" THEN {"NO_SUCH_BUCKET"}
     ELSE IF c[key] = NoFile THEN {"NO_SUCH_KEY"}
     ELSE {"none"})

\* the outcomes of a delete request: the store answers the delete of a
\* missing key with success or with a missing-key error
DeleteOutcomes(b, c, key) ==
  Transient \cup
    (IF b[ObjBucket] # "mine" THEN {"NO_SUCH_BUCKET"}
     ELSE IF c[key] = NoFile THEN {"NO_SUCH_KEY", "none"}
     ELSE {"none"})

\* the outcomes of a request that writes an object
WriteOutcomes(b) ==
  Transient \cup (IF b[ObjBucket] # "mine" THEN {"NO_SUCH_BUCKET"} ELSE {"none"})

\* the status of a create request that always fails on an error outcome
CreateStatusStrict(err) == IF err = "none" THEN "OK" ELSE "IOError"

\* S3StorageProvider::CreateBucket: the status of the create request
CreateStatus(err) ==
  IF err \in {"none", "BUCKET_ALREADY_EXISTS", "BUCKET_ALREADY_OWNED_BY_YOU"}
    THEN "OK" ELSE "IOError"

\* S3StorageProvider::ExistsBucket: the status of the head request
ExistsStatus(err) == IF err = "none" THEN "OK" ELSE "NotFound"

\* the typed status of DeleteObject, HeadObject
TypedStatus(err) ==
  IF err = "none" THEN "OK"
  ELSE IF IsNotFound(err) THEN "NotFound" ELSE "IOError"

\* a status that hides the failure of the request
UntypedStatusOk(err) == "OK"

\* the status of CopyObject, PutObjectMetadata, DoPutObject
UntypedStatus(err) == IF err = "none" THEN "OK" ELSE "IOError"

\* the buckets of the store after a create request
Created(b, name, err) ==
  IF err = "none" THEN [b EXCEPT ![name] = "mine"] ELSE b

\* a provider after a successful SanitizeOptions
PInit ==
  /\ ppc = "ready"
  /\ pstatus_ = "OK"
  /\ s3client_ = TRUE
  /\ opts = [src |-> [name |-> "b1", region |-> "r1"],
             dest |-> [name |-> "b1", region |-> "r1"],
             create_bucket_if_missing |-> TRUE]
  /\ buckets \in [BucketNames -> {"absent", "mine", "other"}]
  /\ buckets[ObjBucket] # "other"
  /\ \E l \in {NoFile} \cup SeqsUpTo(1) :
       fs = [p \in Paths |-> IF p = SstName THEN l ELSE NoFile]
  /\ \E c \in {NoFile, <<2>>} :
       cloud = [k \in ObjKeys |->
                  IF k = "db/" \o SstName /\ buckets[ObjBucket] = "mine"
                    THEN c ELSE NoFile]
  /\ providerCalls = 0
  /\ plast = [op |-> "none", target |-> "", ret |-> "OK", reqs |-> <<>>,
              again |-> FALSE]

\* the guard of every call on a sanitized provider
PCall ==
  /\ ppc = "ready"
  /\ s3client_
  /\ providerCalls < MaxProviderCalls
  /\ providerCalls' = providerCalls + 1

PFrame == UNCHANGED <<envvars, wvars, gvars, lvars, rvars>>

\* S3StorageProvider::CreateBucket
CreateBucket ==
  /\ PCall
  /\ \E name \in BucketNames : \E err \in CreateOutcomes(buckets, name) :
       /\ buckets' = Created(buckets, name, err)
       /\ plast' = PLast("CreateBucket", name, CreateStatus(err),
                         <<Req("CreateBucket", name, err)>>)
  /\ UNCHANGED <<ppc, pstatus_, s3client_, opts>>
  /\ PFrame

\* S3StorageProvider::ExistsBucket
ExistsBucket ==
  /\ PCall
  /\ \E name \in BucketNames : \E err \in HeadBucketOutcomes(buckets, name) :
       plast' = PLast("ExistsBucket", name, ExistsStatus(err),
                      <<Req("HeadBucket", name, err)>>)
  /\ UNCHANGED pstate
  /\ PFrame

\* S3StorageProvider::DeleteObject
DeleteObject ==
  /\ PCall
  /\ \E key \in ObjKeys : \E err \in DeleteOutcomes(buckets, cloud, key) :
       /\ cloud' = IF err = "none" THEN [cloud EXCEPT ![key] = NoFile]
                   ELSE cloud
       /\ plast' = PLast("DeleteObject", key, TypedStatus(err),
                         <<Req("DeleteObject", key, err)>>)
  /\ UNCHANGED <<fs, pstate>>
  /\ UNCHANGED <<wvars, gvars, lvars, rvars>>

\* S3StorageProvider::CopyObject
CopyObject ==
  /\ PCall
  /\ \E src \in ObjKeys, dst \in ObjKeys :
       \E err \in ReadOutcomes(buckets, cloud, src) :
         /\ cloud' = IF err = "none" THEN [cloud EXCEPT ![dst] = cloud[src]]
                     ELSE cloud
         /\ plast' = PLast("CopyObject", dst, UntypedStatus(err),
                           <<Req("CopyObject", src, err)>>)
  /\ UNCHANGED <<fs, pstate>>
  /\ UNCHANGED <<wvars, gvars, lvars, rvars>>

\* S3StorageProvider::HeadObject behind ExistsObject, GetObjectSize,
\* GetObjectModificationTime and GetObjectMetadata
HeadObject ==
  /\ PCall
  /\ \E key \in ObjKeys : \E err \in ReadOutcomes(buckets, cloud, key) :
       plast' = PLast("HeadObject", key, TypedStatus(err),
                      <<Req("HeadObject", key, err)>>)
  /\ UNCHANGED pstate
  /\ PFrame

\* S3StorageProvider::PutObjectMetadata: the object is put with the
\* metadata and no body
PutObjectMetadata ==
  /\ PCall
  /\ \E key \in ObjKeys : \E err \in WriteOutcomes(buckets) :
       /\ cloud' = IF err = "none" THEN [cloud EXCEPT ![key] = <<>>]
                   ELSE cloud
       /\ plast' = PLast("PutObjectMetadata", key, UntypedStatus(err),
                         <<Req("PutObject", key, err)>>)
  /\ UNCHANGED <<fs, pstate>>
  /\ UNCHANGED <<wvars, gvars, lvars, rvars>>

\* CloudStorageProvider::PutObject of the local file SstName
PutObjectCall ==
  /\ PCall
  /\ \E sizeOk \in BOOLEAN, err \in WriteOutcomes(buckets) :
       LET key == "db/" \o SstName
           put == PutObject(fs, SstName, sizeOk, err = "none")
       IN  /\ cloud' = Stored(cloud, key, put)
           /\ plast' = PLast("PutObject", SstName, put.st,
                             IF put.sent THEN <<Req("PutObject", key, err)>>
                             ELSE <<>>)
  /\ UNCHANGED <<fs, pstate>>
  /\ UNCHANGED <<wvars, gvars, lvars, rvars>>

PNext ==
  \/ CreateBucket \/ ExistsBucket \/ DeleteObject \/ CopyObject
  \/ HeadObject \/ PutObjectMetadata \/ PutObjectCall

(* ------------------------------ SanitizeOptions ------------------------ *)
\* the bucket options a role can have
BucketOptions(names) ==
  {NoBucket} \cup {[name |-> n, region |-> r] : n \in names, r \in Regions}

\* a provider before its first SanitizeOptions
SInit ==
  /\ ppc = "new"
  /\ pstatus_ = "OK"
  /\ s3client_ = FALSE
  /\ opts \in [src : BucketOptions({"b1"}), dest : BucketOptions(BucketNames),
                create_bucket_if_missing : BOOLEAN]
  /\ buckets \in [BucketNames -> {"absent", "mine", "other"}]
  /\ providerCalls = 0
  /\ plast = [op |-> "none", target |-> "", ret |-> "OK", reqs |-> <<>>,
              again |-> FALSE]

\* a region test that is never taken
CrossRegionNever == FALSE

\* the two roles name different buckets of different regions
CrossRegion ==
  /\ ~SrcMatchesDest /\ HasSrcBucket /\ HasDestBucket
  /\ opts.src.region # opts.dest.region

\* the outcome of a SanitizeOptions: the status stored and returned, whether
\* a client was created, the requests issued and the buckets of the store
Sanitized(st, client, reqs, b) ==
  [st |-> st, client |-> client, reqs |-> reqs, b |-> b]

\* a probe whose answer is not looked at
BucketFoundNever(head) == FALSE

\* the existence probe of the destination bucket succeeded
BucketFound(head) == ExistsStatus(head) = "OK"

\* CloudStorageProvider::SanitizeOptions with the status st stored before
\* it, and the outcomes of the head request and of the create request
BaseSanitizeOptions(st, client, head, create) ==
  LET dest == opts.dest.name
      h == Req("HeadBucket", dest, head)
      c == Req("CreateBucket", dest, create)
  IN  IF st # "OK" THEN Sanitized(st, client, << >>, buckets)
      ELSE IF ~HasDestBucket THEN Sanitized(st, client, << >>, buckets)
      ELSE IF BucketFound(head)
        THEN Sanitized(st, client, <<h>>, buckets)
      ELSE IF opts.create_bucket_if_missing
        THEN Sanitized(CreateStatus(create), client, <<h, c>>,
                       Created(buckets, dest, create))
      ELSE Sanitized("NotFound", client, <<h>>, buckets)

\* S3StorageProvider::SanitizeOptions; cfgOk, credOk: the outcomes of
\* GetClientConfiguration and of GetCredentialsProvider
S3SanitizeOptions(cfgOk, credOk, head, create) ==
  IF pstatus_ # "OK" THEN Sanitized(pstatus_, s3client_, << >>, buckets)
  ELSE IF CrossRegion
    THEN Sanitized("InvalidArgument", s3client_, << >>, buckets)
  ELSE IF ~cfgOk
    THEN BaseSanitizeOptions("ClientConfigurationError", s3client_, head,
                             create)
  ELSE IF ~credOk
    THEN BaseSanitizeOptions("CredentialsError", s3client_, head, create)
  ELSE BaseSanitizeOptions("OK", TRUE, head, create)

SanitizeOptions ==
  /\ ppc = "new"
  /\ providerCalls < MaxProviderCalls
  /\ providerCalls' = providerCalls + 1
  /\ \E cfgOk \in BOOLEAN, credOk \in BOOLEAN :
       \E head \in (IF HasDestBucket
                      THEN HeadBucketOutcomes(buckets, opts.dest.name)
                    ELSE {"none"}),
          create \in (IF HasDestBucket
                        THEN CreateOutcomes(buckets, opts.dest.name)
                      ELSE {"none"}) :
         LET s == S3SanitizeOptions(cfgOk, credOk, head, create)
         IN  /\ pstatus_' = s.st
             /\ s3client_' = s.client
             /\ buckets' = s.b
             /\ plast' = PLast("SanitizeOptions", opts.dest.name, s.st,
                               s.reqs)
  /\ UNCHANGED <<ppc, opts>>
  /\ PFrame

SNext == SanitizeOptions

(* --------------------------- specifications ---------------------------- *)
NoFiles == [p \in Paths |-> NoFile]
NoObjects == [k \in ObjKeys |-> NoFile]

\* no writer
WIdle ==
  /\ wpc = "off"
  /\ fname_ = ""
  /\ cloud_fname_ = ""
  /\ is_manifest_ = FALSE
  /\ keep_local_sst_files = FALSE
  /\ local_file_ = ""
  /\ tmp_file_ = ""
  /\ status_ = "OK"
  /\ contentA = NoFile
  /\ written = << >>
  /\ syncCalls = 0
  /\ closeCalls = 0
  /\ renamed = FALSE
  /\ wroteAfterSync = FALSE
  /\ renameTries = 0
  /\ uploads = 0
  /\ syncedOk = FALSE
  /\ wlast = Last("none", "OK", FALSE, FALSE, FALSE, FALSE, NoPut, FALSE)

\* no GetObject call
GIdle ==
  /\ gpc = "off"
  /\ local_destination = ""
  /\ object_path = ""
  /\ remote_size = 0
  /\ gret = "OK"
  /\ destBefore = NoFile
  /\ glast = GLast("none", 0, FALSE, FALSE, FALSE)
  /\ calls = NoCalls

\* no ListObjects call
LIdle ==
  /\ lpc = "off"
  /\ storeKeys = {}
  /\ list_path = << >>
  /\ prefix = << >>
  /\ marker = << >>
  /\ result = << >>
  /\ lret = "OK"
  /\ resultBefore = << >>
  /\ pages = << >>
  /\ epc = "off"
  /\ eret = "OK"
  /\ dels = << >>

\* ListObjects called on its own
EIdle ==
  /\ epc = "off"
  /\ eret = "OK"
  /\ dels = << >>

\* no reader
RIdle ==
  /\ rpc = "off"
  /\ robject = Object(FALSE, 0)
  /\ file_size_ = 0
  /\ offset_ = 0
  /\ readerCalls = 0
  /\ sizeQueries = 0
  /\ rlast = RLast("none", 0, 0, "OK", 0, 0, 0, 0, FALSE, "none")

\* no provider
PIdle ==
  /\ ppc = "off"
  /\ pstatus_ = "OK"
  /\ s3client_ = FALSE
  /\ opts = [src |-> NoBucket, dest |-> NoBucket,
             create_bucket_if_missing |-> FALSE]
  /\ buckets = [n \in BucketNames |-> "absent"]
  /\ providerCalls = 0
  /\ plast = [op |-> "none", target |-> "", ret |-> "OK", reqs |-> <<>>,
              again |-> FALSE]

InitWriter == WInit /\ GIdle /\ LIdle /\ RIdle /\ PIdle
InitGet == WIdle /\ GInit /\ LIdle /\ RIdle /\ PIdle
InitList ==
  /\ WIdle /\ GIdle /\ LInit /\ EIdle /\ RIdle /\ PIdle
  /\ fs = NoFiles /\ cloud = NoObjects
InitEmpty ==
  /\ WIdle /\ GIdle /\ LInit /\ result = << >> /\ EInit /\ RIdle /\ PIdle
  /\ fs = NoFiles /\ cloud = NoObjects
InitReader ==
  /\ WIdle /\ GIdle /\ LIdle /\ RInit /\ PIdle
  /\ fs = NoFiles /\ cloud = NoObjects
InitProvider == WIdle /\ GIdle /\ LIdle /\ RIdle /\ PInit
InitSanitize ==
  /\ WIdle /\ GIdle /\ LIdle /\ RIdle /\ SInit
  /\ fs = NoFiles /\ cloud = NoObjects
\* no single call: GIdle without its pin of calls
InitConcurrent ==
  /\ WIdle /\ LIdle /\ RIdle /\ PIdle
  /\ gpc = "off" /\ local_destination = "" /\ object_path = ""
  /\ remote_size = 0 /\ gret = "OK" /\ destBefore = NoFile
  /\ glast = GLast("none", 0, FALSE, FALSE, FALSE)
  /\ CInit
  /\ fs = NoFiles /\ cloud = NoObjects

\* one writer on one local file
SpecWriter == InitWriter /\ [][WNext]_vars
\* one GetObject call
SpecGet == InitGet /\ [][GNext]_vars
\* one ListObjects call
SpecList == InitList /\ [][LNext]_vars
\* one reader
SpecReader == InitReader /\ [][RNext]_vars
\* the calls on a sanitized provider
SpecProvider == InitProvider /\ [][PNext]_vars
\* one ListObjects call on a store that may serve truncated pages of no key
SpecListEmpty == InitList /\ [][LEmptyNext]_vars
\* one EmptyBucket call
SpecEmpty == InitEmpty /\ [][LNext \/ ENext]_vars
\* the SanitizeOptions calls on a new provider
SpecSanitize == InitSanitize /\ [][SNext]_vars
\* two GetObject calls on different local destinations
SpecConcurrent == InitConcurrent /\ [][CNext]_vars

Init ==
  \/ InitWriter \/ InitGet \/ InitList \/ InitEmpty \/ InitReader
  \/ InitProvider \/ InitSanitize \/ InitConcurrent
Next ==
  \/ WNext \/ GNext \/ LEmptyNext \/ ENext \/ RNext \/ PNext \/ SNext
  \/ CNext
Spec == Init /\ [][Next]_vars

(* ------------------------------- claims -------------------------------- *)
SideFile == fname_ \o TmpSuffix

\* the writer was constructed on a local manifest that already existed
OnExistingManifest == is_manifest_ /\ contentA # NoFile

\* C1: a writer is opened on an existing manifest of content A, B is written
\* through it and Sync is called once: at every point, also after a crash and
\* after a failed flush or rename, the live manifest path holds A, or (once
\* the Sync has renamed) exactly the content B written through the writer.
ManifestAtomicSwap ==
  (OnExistingManifest /\ syncCalls <= 1 /\ ~wroteAfterSync)
    => \/ fs[fname_] = contentA
       \/ syncCalls = 1 /\ fs[fname_] = written

\* C1 witness: the process was killed after the one Sync renamed B over A
ManifestAtomicSwapWitness ==
  /\ OnExistingManifest /\ syncCalls = 1 /\ ~wroteAfterSync
  /\ wpc = "crashed" /\ renamed
  /\ Len(written) = 2 /\ written # contentA /\ fs[fname_] = written

\* the last call was a Sync of a manifest writer whose flush, and rename if
\* there was one to do, succeeded
SyncLocallyDurable ==
  wlast.op = "Sync" /\ is_manifest_ /\ wlast.hadHandle /\ wlast.localOk

\* C4 as claimed: when the local flush and rename succeed, Sync returns
\* success even if the upload of the manifest fails.
SyncHidesUploadFailure ==
  (SyncLocallyDurable /\ wlast.put.sent) => wlast.ret = "OK"

\* C4 as amended: when the local flush and rename succeed, Sync returns the
\* status of the manifest upload, so a failed upload fails the Sync.
SyncReturnsUploadStatus ==
  SyncLocallyDurable => wlast.ret = wlast.put.st

\* C4 witness: flush and rename succeeded, the upload was refused by the
\* store, and Sync returned the failure
SyncReturnsUploadStatusWitness ==
  /\ SyncLocallyDurable /\ wlast.renameTried
  /\ wlast.put.sent /\ wlast.put.st = "IOError" /\ wlast.ret = "IOError"

\* C5: every Sync of a manifest writer whose local flush succeeds and that
\* uploads, uploads the whole content written through the writer so far.
SyncUploadsWritten ==
  (wlast.op = "Sync" /\ is_manifest_ /\ wlast.hadHandle /\ wlast.flushOk
     /\ wlast.put.sent)
    => wlast.put.req = written

\* an Append step of a writer constructed on an existing manifest
AppendOnExisting == OnExistingManifest /\ written' # written

\* C6 as claimed: until a first Sync has returned success, no write through
\* the writer changes the content of the live manifest path.
NoLiveWriteBeforeSyncOk ==
  [][(AppendOnExisting /\ ~syncedOk) => fs'[fname_] = fs[fname_]]_vars

\* C6 as amended: until a Sync has renamed the side file over the live path,
\* no write through the writer changes the content of the live manifest
\* path; the bytes go to the side file.
NoLiveWriteBeforeRename ==
  [][(AppendOnExisting /\ ~renamed)
       => /\ fs'[fname_] = fs[fname_]
          /\ fs'[SideFile] = Append(fs[SideFile], written'[Len(written')])
    ]_vars

\* C6 witness: after a Sync that failed, a write went to the side file and
\* the live manifest still holds A
NoLiveWriteBeforeRenameWitness ==
  /\ OnExistingManifest /\ ~renamed /\ syncCalls >= 1
  /\ wlast.op = "Append" /\ fs[fname_] = contentA
  /\ fs[SideFile] = written /\ Len(written) = 2

\* C7: when Close of an ordinary file returns success, the remote object
\* holds the content of the local file, the local file is gone exactly when
\* keep_local_sst_files is off; a delete is attempted only after the push
\* has succeeded.
CloseSuccessOrdinary ==
  (wlast.op = "Close" /\ ~is_manifest_)
    => /\ wlast.ret = "OK"
          => /\ cloud[cloud_fname_] = written
             /\ ~Exists(fs, fname_) <=> ~keep_local_sst_files
             /\ Exists(fs, fname_) => fs[fname_] = written
       /\ wlast.delTried
          => /\ wlast.put.sent /\ wlast.put.st = "OK"
             /\ cloud[cloud_fname_] = written
       /\ ~Exists(fs, fname_) => wlast.ret = "OK" \/ ~wlast.hadHandle

\* C7 witness: Close pushed the two bytes written and deleted the local file
CloseSuccessOrdinaryWitness ==
  /\ wlast.op = "Close" /\ ~is_manifest_ /\ wlast.hadHandle
  /\ wlast.ret = "OK" /\ wlast.delTried /\ ~keep_local_sst_files
  /\ Len(written) = 2 /\ cloud[cloud_fname_] = written
  /\ ~Exists(fs, fname_)

\* C8: when the push of Close of an ordinary file fails, Close returns a
\* failure, attempts no delete, and the local file stays with its content.
CloseFailedPush ==
  (wlast.op = "Close" /\ ~is_manifest_ /\ wlast.hadHandle
     /\ wlast.put.st # "OK")
    => /\ wlast.ret # "OK"
       /\ ~wlast.delTried
       /\ fs[fname_] = written

\* C8 witness: the store refused the upload and the local file is kept
\* although keep_local_sst_files is off
CloseFailedPushWitness ==
  /\ wlast.op = "Close" /\ ~is_manifest_ /\ wlast.hadHandle
  /\ wlast.put.sent /\ wlast.put.st = "IOError" /\ ~keep_local_sst_files
  /\ wlast.ret = "IOError" /\ fs[fname_] = written /\ Len(written) = 2

\* C9: Close of a manifest writer issues no remote request, deletes nothing
\* and leaves the local files as they are; the local manifest exists after it.
ManifestCloseLocalOnly ==
  [][(closeCalls' = closeCalls + 1 /\ is_manifest_)
       => /\ ~wlast'.put.sent /\ ~wlast'.delTried
          /\ cloud' = cloud /\ fs' = fs
          /\ wlast'.hadHandle => Exists(fs', fname_)
    ]_vars

\* C9 witness: a manifest writer with written, never synced content was
\* closed
ManifestCloseLocalOnlyWitness ==
  /\ wlast.op = "Close" /\ is_manifest_ /\ wlast.hadHandle
  /\ wlast.ret = "OK" /\ Exists(fs, fname_) /\ written # << >>
  /\ cloud[cloud_fname_] # written

StagingFile == local_destination \o TmpSuffix

\* the download succeeded and the measured size differs from the reported one
SizeMismatch ==
  glast.dl = "OK" /\ glast.sizeOk /\ glast.local_size # remote_size

\* C2: GetObject renames the staging file to the destination only when the
\* measured local size equals the reported remote size; on a mismatch it
\* returns an I/O error, the staging file is deleted and the destination is
\* as it was before the call.
DownloadConsistency ==
  gpc = "done"
    => /\ (glast.renameTried \/ fs[local_destination] # destBefore)
          => glast.sizeOk /\ glast.local_size = remote_size
       /\ SizeMismatch
          => /\ gret = "IOError"
             /\ ~Exists(fs, StagingFile)
             /\ fs[local_destination] = destBefore

\* C2 witness: a short transfer over an existing destination
DownloadConsistencyWitness ==
  /\ gpc = "done" /\ SizeMismatch /\ destBefore # NoFile
  /\ glast.local_size = 1 /\ remote_size = 2 /\ gret = "IOError"

\* C10: whenever GetObject returns a failure, the staging file no longer
\* exists.
StagingCleanedOnFailure ==
  (gpc = "done" /\ gret # "OK") => ~Exists(fs, StagingFile)

\* the suffixes of the keys under the prefix, in the store's key order
ExpectedListing ==
  LET s == Sorted({k \in storeKeys : StartsWith(k, prefix)})
  IN  [i \in 1..Len(s) |-> Strip(s[i], prefix)]

\* C3: a successful ListObjects appends exactly the keys under the
\* normalized prefix, with the prefix stripped, each once and in the store's
\* key order, however the store splits them into pages.
ListingComplete ==
  (lpc = "done" /\ lret = "OK")
    => /\ prefix = <<1, Sep>>
       /\ result = resultBefore \o ExpectedListing

\* C3 witness: three keys or more came in three pages or more, a truncated
\* page with a continuation token and a truncated page without
ListingCompleteWitness ==
  /\ lpc = "done" /\ lret = "OK"
  /\ Len(pages) >= 3 /\ Len(ExpectedListing) >= 3
  /\ \E i, j \in 1..Len(pages) :
       /\ pages[i].truncated /\ pages[i].token
       /\ pages[j].truncated /\ ~pages[j].token

\* the last call was a random-access read that went past the end-of-file test
ReadAtDone == rpc = "open" /\ rlast.op = "ReadAt"

\* C11: a random-access read at an offset at or behind the known size S
\* returns success with 0 bytes and asks the store for nothing; a read with
\* offset < S < offset + length returns exactly S - offset bytes when the
\* store serves the requested range in full.
RangeReadTrimmed ==
  ReadAtDone =>
    /\ rlast.offset >= file_size_
         => rlast.ret = "OK" /\ rlast.bytes = 0 /\ rlast.reqs = 0
    /\ (/\ rlast.offset < file_size_
        /\ file_size_ < rlast.offset + rlast.n
        /\ rlast.full)
         => /\ rlast.ret = "OK"
            /\ rlast.bytes = file_size_ - rlast.offset
            /\ rlast.lo = rlast.offset /\ rlast.hi = file_size_ - 1

\* C11 witness: a read of 3 bytes at offset 0 of an object of 2 bytes was
\* served in full and returned 2 bytes
RangeReadTrimmedWitness ==
  /\ ReadAtDone /\ file_size_ = 2 /\ rlast.offset = 0 /\ rlast.n = 3
  /\ rlast.full /\ rlast.bytes = 2 /\ rlast.ret = "OK"

\* C12: a random-access read of length 0 at an offset before the known size
\* sends a range of exactly one byte, the byte at the offset, never an empty
\* or inverted range, and returns 0 bytes, with success when the store
\* answers the request with success.
ZeroByteRead ==
  (ReadAtDone /\ rlast.n = 0 /\ rlast.offset < file_size_)
    => /\ rlast.reqs = 1
       /\ rlast.lo = rlast.offset /\ rlast.hi = rlast.offset
       /\ rlast.bytes = 0
       /\ rlast.err = "none" => rlast.ret = "OK"

\* C12 witness: a read of 0 bytes at offset 2 of an object of 3 bytes asked
\* for the byte 2 and returned success with 0 bytes
ZeroByteReadWitness ==
  /\ ReadAtDone /\ rlast.n = 0 /\ rlast.offset = 2 /\ file_size_ = 3
  /\ rlast.reqs = 1 /\ rlast.lo = 2 /\ rlast.hi = 2
  /\ rlast.ret = "OK" /\ rlast.bytes = 0

\* the last call was PutObject of a local file of size 0
ZeroSizePut ==
  ppc = "ready" /\ plast.op = "PutObject" /\ fs[SstName] = <<>>

\* C13: PutObject on a local file whose size is 0 returns an I/O failure and
\* issues no remote request; the remote store is unchanged.
ZeroSizeUploadRejected ==
  [][(ZeroSizePut' /\ providerCalls' = providerCalls + 1)
       => /\ plast'.ret = "IOError"
          /\ plast'.reqs = <<>>
          /\ cloud' = cloud]_vars

\* C13 witness: the empty local file was refused and the object the store
\* held under the key is still there
ZeroSizeUploadRejectedWitness ==
  /\ ZeroSizePut /\ plast.ret = "IOError" /\ plast.reqs = <<>>
  /\ cloud["db/" \o SstName] = <<2>>

RECURSIVE ServedKeys(_)
\* the keys of the pages ps in the order the store served them
ServedKeys(ps) ==
  IF ps = << >> THEN << >>
  ELSE ServedKeys(SubSeq(ps, 1, Len(ps) - 1)) \o ps[Len(ps)].objs

\* the positions of the served keys that do not start with the prefix
RoguePositions ==
  LET ks == ServedKeys(pages)
  IN  {i \in 1..Len(ks) : ~StartsWith(ks[i], prefix)}

\* the page p holds a key that does not start with the prefix
HasRogue(p) == \E i \in 1..Len(p.objs) : ~StartsWith(p.objs[i], prefix)

ListingErrorTypedByPage ==
  (lpc = "done" /\ pages # << >> /\ pages[Len(pages)].err # "none")
    => /\ (Len(pages) = 1 /\ IsNotFound(pages[1].err)) => lret = "NotFound"
       /\ Len(pages) > 1 => lret = "IOError"

\* the paths of the delete requests issued so far
DeletedPaths == [i \in 1..Len(dels) |-> dels[i].path]

\* C17: when the listing of EmptyBucket succeeds, one delete is attempted
\* for every listed entry, in listing order, whatever earlier deletes
\* returned, and the status returned is that of the last delete attempted
\* (success when the listing is empty); when the listing fails no delete is
\* attempted and the failure of the listing is returned.
EmptyBucketBulkDelete ==
  /\ epc \in {"deleting", "done"}
       => DeletedPaths = SubSeq(result, 1, Len(dels))
  /\ epc = "done"
       => IF lret = "OK"
            THEN /\ DeletedPaths = result
                 /\ eret = IF dels = << >> THEN "OK"
                           ELSE DeleteStatus(dels[Len(dels)].err)
            ELSE dels = << >> /\ eret = lret

\* C17 witness: three entries were listed, the first two deletes failed, the
\* third was attempted all the same and its success was returned
EmptyBucketBulkDeleteWitness ==
  /\ epc = "done" /\ lret = "OK" /\ Len(result) = 3 /\ Len(dels) = 3
  /\ dels[1].err = "ACCESS_DENIED" /\ dels[2].err = "ACCESS_DENIED"
  /\ dels[3].err = "none" /\ eret = "OK"

\* the last call on the provider was `op'
PDone(op) == ppc = "ready" /\ plast.op = op

\* C15: CreateBucket succeeds when the store creates the bucket and when the
\* store answers that the bucket already exists or is already owned by the
\* caller, so the second of two successive CreateBucket calls on one name
\* succeeds like the first whenever the store does not fail it for another
\* reason; every other failure of the store yields an I/O failure.
BucketIdempotence ==
  PDone("CreateBucket")
    => LET err == plast.reqs[1].err
       IN  /\ Len(plast.reqs) = 1
           /\ err \in {"none", "BUCKET_ALREADY_EXISTS",
                       "BUCKET_ALREADY_OWNED_BY_YOU"} => plast.ret = "OK"
           /\ err \notin {"none", "BUCKET_ALREADY_EXISTS",
                          "BUCKET_ALREADY_OWNED_BY_YOU"}
                => plast.ret = "IOError"
           /\ (plast.again /\ err \notin Transient) => plast.ret = "OK"
           /\ plast.ret = "OK" => buckets[plast.target] # "absent"

\* C15 witness: the second of two successive CreateBucket calls on one name
\* was answered "already owned by you" and succeeded
BucketIdempotenceWitness ==
  /\ PDone("CreateBucket") /\ plast.again /\ providerCalls = 2
  /\ plast.reqs[1].err = "BUCKET_ALREADY_OWNED_BY_YOU" /\ plast.ret = "OK"

\* C18: DeleteObject and CopyObject each issue one request; a not-found
\* outcome of the store is returned as not-found and every other failure as
\* an I/O failure, for both operations.
DeleteAndCopyTyped ==
  (PDone("DeleteObject") \/ PDone("CopyObject"))
    => LET err == plast.reqs[1].err
       IN  /\ Len(plast.reqs) = 1
           /\ err = "none" => plast.ret = "OK"
           /\ IsNotFound(err) => plast.ret = "NotFound"
           /\ (err # "none" /\ ~IsNotFound(err)) => plast.ret = "IOError"

\* a source and a destination bucket are configured and their regions differ
RegionsDiffer ==
  HasSrcBucket /\ HasDestBucket /\ opts.src.region # opts.dest.region

WriterSwallowed ==
  wpc # "off" /\ wlast.put.sent /\ wlast.put.st # "OK" /\ wlast.ret = "OK"

\* GetObject returned success although its download failed
GetSwallowed ==
  gpc = "done" /\ glast.dl \notin {"none", "OK"} /\ gret = "OK"

\* ListObjects returned success although a page request failed
ListSwallowed ==
  /\ lpc = "done" /\ lret = "OK"
  /\ \E i \in 1..Len(pages) : pages[i].err # "none"

\* EmptyBucket returned success although a page request of its listing
\* failed
EmptySwallowed ==
  /\ epc = "done" /\ eret = "OK"
  /\ \E i \in 1..Len(pages) : pages[i].err # "none"

\* the last read returned success although its GET failed
ReaderSwallowed ==
  rpc # "off" /\ rlast.err # "none" /\ rlast.ret = "OK"

\* the requests of the last provider call that failed
FailedReqs == {i \in 1..Len(plast.reqs) : plast.reqs[i].err # "none"}

\* the failed requests whose failure the code takes for an answer: the create
\* request answered "already exists" or "already owned", and the existence
\* probe of SanitizeOptions
AnswerReqs ==
  {i \in FailedReqs :
     \/ /\ plast.reqs[i].kind = "CreateBucket"
        /\ plast.reqs[i].err \in {"BUCKET_ALREADY_EXISTS",
                                  "BUCKET_ALREADY_OWNED_BY_YOU"}
     \/ plast.op = "SanitizeOptions" /\ plast.reqs[i].kind = "HeadBucket"}

NoneSwallowedElsewhere ==
  /\ ~WriterSwallowed /\ ~GetSwallowed /\ ~ListSwallowed /\ ~EmptySwallowed
  /\ ~ReaderSwallowed

\* C19: for every provider, reader and writer operation other than the
\* delete loop of EmptyBucket, if a remote request issued by the operation
\* ends in a failure outcome, the operation returns a failure status.
PropagateEverything ==
  /\ NoneSwallowedElsewhere
  /\ (ppc # "off" /\ FailedReqs # {}) => plast.ret # "OK"

\* C19 as the code has it: the same, except that CreateBucket takes the
\* store's "already exists" and "already owned by you" failures for success,
\* and SanitizeOptions takes a failed existence probe of the destination
\* bucket for "missing" and returns the status of the create request it then
\* issues, or not-found when it may not create.
PropagateAllButAnswers ==
  /\ NoneSwallowedElsewhere
  /\ (ppc # "off" /\ FailedReqs # AnswerReqs) => plast.ret # "OK"
  /\ (ppc # "off" /\ plast.op = "SanitizeOptions" /\ FailedReqs # {}
        /\ plast.ret = "OK")
       => /\ Len(plast.reqs) = 2
          /\ CreateStatus(plast.reqs[2].err) = "OK"

\* C19 witness: the probe of SanitizeOptions failed, the create request it
\* issued was refused, and the I/O failure was returned
PropagateAllButAnswersWitness ==
  /\ ppc = "new" /\ plast.op = "SanitizeOptions" /\ Len(plast.reqs) = 2
  /\ plast.reqs[1].err = "NO_SUCH_BUCKET"
  /\ plast.reqs[2].err = "ACCESS_DENIED" /\ plast.ret = "IOError"

\* C21: NewCloudReadableFile issues exactly one size query before the reader
\* is made; when the query fails no reader is made and the typed failure,
\* not-found or I/O, is returned as it is; the known size of a reader never
\* changes afterwards and no read issues another size query.
OneSizeQuery ==
  /\ [](/\ rpc = "new" => sizeQueries = 0
        /\ rpc \in {"open", "failed"} => sizeQueries = 1
        /\ rpc = "open" => file_size_ = robject.size
        /\ (rpc \in {"open", "failed"} /\ rlast.op = "NewCloudReadableFile")
             => /\ rlast.ret = "OK" <=> rpc = "open"
                /\ rlast.ret = "OK" <=> rlast.err = "none"
                /\ IsNotFound(rlast.err) => rlast.ret = "NotFound"
                /\ (rlast.err # "none" /\ ~IsNotFound(rlast.err))
                     => rlast.ret = "IOError")
  /\ [][rpc = "open"
          => /\ file_size_' = file_size_
             /\ sizeQueries' = sizeQueries
             /\ rpc' = "open"]_vars

\* C21 witness: a reader opened on an object of 3 bytes has made two calls
\* and still knows the size 3 from its one size query
OneSizeQueryWitness ==
  /\ rpc = "open" /\ file_size_ = 3 /\ sizeQueries = 1 /\ readerCalls = 2
  /\ rlast.op = "Read" /\ rlast.bytes = 2

\* C22: over any sequence of sequential Read and Skip calls on a reader of
\* known size S, with any length and any skip amount of the unsigned width,
\* the cursor never decreases and stays within 0..S.
CursorInvariant ==
  [][rpc = "open"
       => /\ offset_' >= offset_
          /\ offset_' >= 0 /\ offset_' <= file_size_']_vars

\* the last call was a read, random-access or sequential
ReadDone == rpc = "open" /\ rlast.op \in {"ReadAt", "Read"}

\* C27: every random-access read on a reader issues exactly one ranged GET,
\* for every offset and length.
OneGetPerRead == ReadAtDone => rlast.reqs = 1

\* C27 as the code has it: a read at an offset below the known size issues
\* exactly one ranged GET, whatever the length; a read at or behind the known
\* size issues none.
OneGetBelowSize ==
  ReadDone => rlast.reqs = (IF rlast.offset < file_size_ THEN 1 ELSE 0)

\* C27 witness: a random-access read of 2 bytes at the end of an object of 2
\* bytes returned without a GET
OneGetBelowSizeWitness ==
  /\ ReadAtDone /\ file_size_ = 2 /\ rlast.offset = 2 /\ rlast.n = 2
  /\ rlast.reqs = 0 /\ rlast.ret = "OK"

\* C28: for every offset below the known size S and every length n of the
\* unsigned width, lengths whose sum with the offset wraps included, the
\* range sent to the store is offset..e with offset <= e <= S - 1, and the
\* number of bytes returned is at most min(n, S - offset).
RangeInsideObject ==
  (ReadAtDone /\ rlast.offset < file_size_)
    => /\ rlast.lo = rlast.offset
       /\ rlast.offset <= rlast.hi /\ rlast.hi <= file_size_ - 1
       /\ rlast.bytes <= Min(rlast.n, file_size_ - rlast.offset)

\* C29: a successful sequential Read advances the cursor by the number of
\* bytes it returned (in the arithmetic of the unsigned word); a failed
\* sequential Read and every random-access Read leave the cursor as it was.
CursorUpdate ==
  [][(rpc = "open" /\ readerCalls' = readerCalls + 1)
       => /\ (rlast'.op = "Read" /\ rlast'.ret = "OK")
               => offset_' = (offset_ + rlast'.bytes) % Word
          /\ (rlast'.op = "Read" /\ rlast'.ret # "OK") => offset_' = offset_
          /\ rlast'.op = "ReadAt" => offset_' = offset_]_vars

\* C29 witness: a sequential Read of 3 bytes at cursor 1 of an object of 3
\* bytes returned 2 bytes and left the cursor at 3
CursorUpdateWitness ==
  /\ rpc = "open" /\ rlast.op = "Read" /\ rlast.ret = "OK" /\ file_size_ = 3
  /\ rlast.offset = 1 /\ rlast.n = 3 /\ rlast.bytes = 2 /\ offset_ = 3

\* C30: a failed ranged GET is returned as not-found when the error type of
\* the store is a missing bucket, a missing key or resource-not-found, or
\* when its message holds the 404 response marker; every other failed GET is
\* returned as an I/O failure; the read returns an empty result either way.
ReaderErrorTyping ==
  (ReadDone /\ rlast.err # "none")
    => /\ rlast.bytes = 0
       /\ rlast.ret = IF \/ rlast.err \in {"NO_SUCH_BUCKET", "NO_SUCH_KEY",
                                           "RESOURCE_NOT_FOUND"}
                         \/ rlast.msg404
                        THEN "NotFound" ELSE "IOError"

\* C30 witness: a GET failed with an error of another type whose message
\* holds the 404 marker, and the read returned not-found with no bytes
ReaderErrorTypingWitness ==
  /\ ReadDone /\ rlast.err = "UNKNOWN" /\ rlast.msg404
  /\ rlast.ret = "NotFound" /\ rlast.bytes = 0

\* what the call of caller c returns when it runs alone and meets the same
\* faults: OK when the whole object arrived, was measured and was renamed
AloneRet(c) ==
  IF calls[c].dl # "OK" THEN calls[c].dl
  ELSE IF calls[c].sizeFault \/ calls[c].wrote # calls[c].object
         \/ calls[c].renameFault
    THEN "IOError"
  ELSE "OK"

\* the final file of that call run alone on the empty local storage
AloneFinal(c) == IF AloneRet(c) = "OK" THEN calls[c].object ELSE NoFile

AllCallsDone == \A c \in Callers : calls[c].pc = "done"

\* the local destinations of two calls, none the staging path of the other
DestinationsApart ==
  \A c \in Callers : \A d \in Callers \ {c} :
    calls[c].local_destination # TmpDestination(calls[d].local_destination)

\* C23: when concurrent GetObject calls on pairwise different local
\* destinations have all returned, each call's status and final file are
\* those of the same call run alone.
NonInterference ==
  AllCallsDone =>
    \A c \in Callers :
      /\ calls[c].ret = AloneRet(c)
      /\ fs[calls[c].local_destination] = AloneFinal(c)

\* the same for destinations of which none is the staging path of another
NonInterferenceApart == DestinationsApart => NonInterference

NonInterferenceApartWitness ==
  /\ AllCallsDone /\ DestinationsApart
  /\ \A c \in Callers : calls[c].ret = "OK"

\* the constructor created the side file: the manifest existed and the side
\* file was opened
SideFileMade ==
  /\ wpc = "open"
  /\ OnExistingManifest
  /\ status_ = "OK"

\* the writer was closed (by Close or by the destructor) and no rename of
\* the side file has succeeded
ClosedUnrenamed == SideFileMade /\ local_file_ = "" /\ ~renamed

\* C24: a manifest writer that created a side file and was closed or
\* destroyed without a successful rename (no Sync, a failed flush, a failed
\* rename) has removed the side file from local storage.
SideFileCleanup == ClosedUnrenamed => fs[SideFile] = NoFile

\* a Sync step, and the rename of that Sync failed
SyncStep == syncCalls' = syncCalls + 1
RenameFailed == wlast'.renameTried /\ ~renamed'

\* C25: the side-file rename is attempted at most once in the life of a
\* writer, only by a writer opened on an existing local manifest and only in
\* a Sync whose flush has just succeeded; no upload is issued in a Sync whose
\* flush or rename failed.
RenameProtocol ==
  /\ [](renameTries <= 1)
  /\ [](renameTries > 0 => OnExistingManifest)
  /\ [][SyncStep =>
          /\ renameTries' # renameTries => wlast'.renameTried
          /\ wlast'.renameTried => wlast'.flushOk /\ OnExistingManifest
          /\ (~wlast'.flushOk \/ RenameFailed) => ~wlast'.put.sent]_vars
  /\ [][~SyncStep => renameTries' = renameTries]_vars

\* the second Sync of a writer whose first Sync renamed: it uploads and
\* does not rename again
RenameProtocolWitness ==
  /\ SideFileMade /\ renameTries = 1 /\ renamed
  /\ syncCalls = 2 /\ wlast.op = "Sync"
  /\ ~wlast.renameTried /\ wlast.put.sent

\* EmptyBucket has returned after a listing and deletes that all succeeded
EmptiedOk ==
  /\ epc = "done" /\ lret = "OK"
  /\ \A i \in 1..Len(dels) : dels[i].err = "none"

\* C26: after an EmptyBucket in which the listing and every delete request
\* succeeded, the bucket holds no object whose key lies under the normalized
\* prefix: each delete request carried the full key of a listed object.
EmptyBucketPostcondition ==
  EmptiedOk => \A k \in storeKeys : ~StartsWith(k, prefix)

\* the keys of the store under the prefix of the call
KeysUnder == {k \in storeKeys : StartsWith(k, prefix)}

\* the page of the request just made
LastPage == pages'[Len(pages')]

\* C31: against a store of finitely many keys that serves them in order
\* after the marker, ListObjects makes finitely many requests (one per key
\* and one more at most), stops at the first page that is not truncated, and
\* after a truncated page continues from the store's token or, without a
\* token, from the last key of the page, also when the page has no key.
ListingProgress ==
  /\ [](Len(pages) <= Cardinality(KeysUnder) + 1)
  /\ [][(lpc = "loop" /\ pages' # pages) =>
          /\ lpc' \in {"loop", "done"}
          /\ lpc' = "done" /\ lret' = "OK" => ~LastPage.truncated
          /\ lpc' = "loop" =>
               /\ LastPage.truncated
               /\ LastPage.n > 0
               /\ marker' = LastPage.objs[LastPage.n]]_vars

\* a Close or a Sync call (the destructor's Close is a Close call)
CloseOrSyncStep == syncCalls' # syncCalls \/ closeCalls' # closeCalls

\* C32: once a writer has no open local handle, every later Close or Sync
\* changes neither local storage nor the object store, sends no request,
\* returns the stored status and leaves the writer as it is; an ordinary-file
\* writer sends at most one upload in its life.
WriterTerminal ==
  /\ [][(wpc = "open" /\ local_file_ = "" /\ CloseOrSyncStep) =>
          /\ fs' = fs /\ cloud' = cloud
          /\ uploads' = uploads /\ renameTries' = renameTries
          /\ ~wlast'.put.sent /\ ~wlast'.delTried
          /\ wlast'.ret = status_
          /\ status_' = status_ /\ local_file_' = ""]_vars
  /\ []((wpc # "off" /\ ~IsManifestFile(fname_)) => uploads <= 1)

\* a second Close of an ordinary-file writer whose first Close uploaded, and
\* a Close of a writer whose construction failed
WriterTerminalWitness ==
  /\ wpc = "open" /\ ~is_manifest_ /\ local_file_ = ""
  /\ closeCalls = 2 /\ uploads = 1 /\ wlast.op = "Close" /\ ~wlast.hadHandle

RECURSIVE ServedObjects(_)
\* the objects of the pages served so far, in the order they were served
ServedObjects(ps) ==
  IF ps = << >> THEN << >>
  ELSE ServedObjects(SubSeq(ps, 1, Len(ps) - 1)) \o ps[Len(ps)].objs

RECURSIVE StrippedUntilViolation(_, _)
\* the served keys with the prefix stripped, up to the first key that does
\* not begin with the prefix
StrippedUntilViolation(objs, p) ==
  IF objs = << >> \/ ~StartsWith(Head(objs), p) THEN << >>
  ELSE <<Strip(Head(objs), p)>> \o StrippedUntilViolation(Tail(objs), p)

\* C33: ListObjects only appends to the caller's result: at every point of
\* the call and in every outcome the result is the entries it held before
\* the call followed by the entries of the keys served so far (up to a key
\* outside the prefix), so a failure on a later page or on a prefix violation
\* keeps what was emitted before it.
ListAppendOnly ==
  /\ [](lpc \in {"loop", "done", "crashed"} =>
          result = resultBefore \o
                     StrippedUntilViolation(ServedObjects(pages), prefix))
  /\ [][/\ Len(result') >= Len(result)
        /\ SubSeq(result', 1, Len(result)) = result]_vars

\* a call that held an entry before, emitted from a first page and failed on
\* the second page
ListAppendOnlyWitness ==
  /\ lpc = "done" /\ lret # "OK" /\ Len(pages) = 2
  /\ resultBefore # << >> /\ Len(result) > Len(resultBefore)

\* a SanitizeOptions call
SanitizeStep == ppc = "new" /\ providerCalls' # providerCalls

\* the statuses the S3 part of SanitizeOptions stores before the bucket check
SetupErrors == {"ClientConfigurationError", "CredentialsError"}

\* the bucket check of the call just made: one probe, and a create request
\* only after a failed probe with create_bucket_if_missing set
BucketChecked(r) ==
  /\ Len(r.reqs) >= 1
  /\ r.reqs[1].kind = "HeadBucket" /\ r.reqs[1].target = opts.dest.name
  /\ IF r.reqs[1].err = "none"
       THEN Len(r.reqs) = 1 /\ r.ret = "OK"
     ELSE IF opts.create_bucket_if_missing
       THEN /\ Len(r.reqs) = 2
            /\ r.reqs[2].kind = "CreateBucket"
            /\ r.reqs[2].target = opts.dest.name
            /\ r.ret = CreateStatus(r.reqs[2].err)
     ELSE Len(r.reqs) = 1 /\ r.ret = "NotFound"

\* C34: a SanitizeOptions with a destination bucket and no earlier error
\* probes the bucket and returns success without a create request when the
\* probe succeeds; after a failed probe it issues CreateBucket and returns
\* its status when create_bucket_if_missing is set, and returns not-found
\* without a create request otherwise; with an error stored earlier (by a
\* previous call or by the set-up of this call) it returns that error and
\* issues no request.
DestBucketCheck ==
  [][SanitizeStep =>
       /\ plast'.ret = pstatus_'
       /\ pstatus_ # "OK" =>
            /\ plast'.ret = pstatus_
            /\ plast'.reqs = << >>
            /\ buckets' = buckets
       /\ (pstatus_ = "OK" /\ HasDestBucket /\ ~CrossRegion) =>
            \/ plast'.ret \in SetupErrors /\ plast'.reqs = << >>
            \/ BucketChecked(plast')]_vars

\* C34 witness: the create request of a first call failed after a failed
\* probe, and the second call returned the stored error without a request
DestBucketCheckWitness ==
  /\ ppc = "new" /\ plast.op = "SanitizeOptions" /\ providerCalls = 2
  /\ opts.create_bucket_if_missing
  /\ plast.ret = "IOError" /\ plast.reqs = << >>
====
